---- MODULE Spec2Model ----
(***************************************************************************)
(* A model of the PS1 symbol-table decoder (package sym: parseSymbol and   *)
(* its record bodies) and of the C type printer (package c: Field.String,  *)
(* isFakeTag, EnumType.Def).                                               *)
(*                                                                         *)
(* Four specifications share the variables below:                          *)
(*   Spec       repeated parseSymbol over one byte stream                  *)
(*   SpecTag    isFakeTag applied to a tag                                 *)
(*   SpecField  Field.String applied to a field                            *)
(*   SpecEnum   EnumType.Def called repeatedly on one enum                 *)
(* Byte strings are sequences of 0..255; texts are TLA+ strings.           *)
(***************************************************************************)
EXTENDS Integers, Sequences, FiniteSets, TLC

VARIABLES
    stream,     \* the bytes behind the io.Reader
    pos,        \* reader offset: number of bytes consumed so far
    syms,       \* symbols returned with a nil error, in order
    last,       \* what the latest parseSymbol call returned, and where it began
    tag,        \* argument of isFakeTag
    tagResult,  \* "none" before the call, then "true" / "false"
    field,      \* receiver of Field.String
    text,       \* <<>> before the call, then <<returned string>>
    enum,       \* the EnumType Def is called on: its Tag and its Members
    read,       \* the Members as they were read, before any Def call
    outs        \* the strings returned by the Def calls so far

vars == <<stream, pos, syms, last, tag, tagResult, field, text, enum, read, outs>>

decVars == <<stream, pos, syms, last>>
tagVars == <<tag, tagResult>>
fieldVars == <<field, text>>
enumVars == <<enum, read, outs>>

(***************************************************************************)
(* Bounds of the model.                                                    *)
(***************************************************************************)
MaxLeadLen == 14

(***************************************************************************)
(* Errors, by their cause (errors.WithStack wraps, errors.Cause unwraps).  *)
(***************************************************************************)
ErrNil == [code |-> "nil", kind |-> -1]
ErrEOF == [code |-> "EOF", kind |-> -1]
ErrUnexpectedEOF == [code |-> "ErrUnexpectedEOF", kind |-> -1]
ErrKind(k) == [code |-> "kind not yet implemented", kind |-> k]

(***************************************************************************)
(* io.ReadFull on the reader at offset p (0-based): n = 0 reads nothing    *)
(* and succeeds; a full read succeeds; no byte at all is io.EOF; fewer     *)
(* than n bytes is io.ErrUnexpectedEOF, the partial bytes being consumed.  *)
(***************************************************************************)
ReadFull(s, p, n) ==
    IF n = 0 THEN [err |-> ErrNil, data |-> <<>>, pos |-> p]
    ELSE IF Len(s) - p >= n
        THEN [err |-> ErrNil, data |-> SubSeq(s, p + 1, p + n), pos |-> p + n]
    ELSE IF Len(s) - p = 0
        THEN [err |-> ErrEOF, data |-> <<>>, pos |-> p]
    ELSE [err |-> ErrUnexpectedEOF, data |-> SubSeq(s, p + 1, Len(s)), pos |-> Len(s)]

\* little-endian unsigned integers of 1, 2 and 4 bytes
U8(b) == b[1]
U16(b) == b[1] + 256 * b[2]
U32(b) == b[1] + 256 * b[2] + 65536 * b[3] + 16777216 * b[4]

(***************************************************************************)
(* Symbol kinds with a body shape.                                         *)
(***************************************************************************)
KindName1 == 1
KindName2 == 2
KindDef == 148
KindDef2 == 150
KindOverlay == 152

ModARY == 3

NoHdr == [variant |-> "nil"]
NoBody == [variant |-> "nil"]
NilSym == [variant |-> "nil"]

(***************************************************************************)
(* With(v, F) is F(v) with v evaluated once: the result of one read is     *)
(* used by the steps after it.                                             *)
(***************************************************************************)
With(v, F(_)) == CHOOSE y \in {F(x) : x \in {v}} : TRUE

(***************************************************************************)
(* struc.Unpack of a struct: the fields are read one after the other, each *)
(* with its own io.ReadFull; the first failing read ends the call.         *)
(* sizes is the list of the fixed field sizes; vals the raw bytes read.    *)
(***************************************************************************)
RECURSIVE UnpackFixed(_, _, _, _)
UnpackFixed(s, p, sizes, vals) ==
    IF sizes = <<>> THEN [err |-> ErrNil, pos |-> p, vals |-> vals]
    ELSE With(ReadFull(s, p, Head(sizes)), LAMBDA r :
            IF r.err # ErrNil
                THEN [err |-> r.err, pos |-> r.pos, vals |-> vals]
                ELSE UnpackFixed(s, r.pos, Tail(sizes), Append(vals, r.data)))

\* parseSymbolHeader: Value uint32, Kind uint8
parseSymbolHeader(s, p) ==
    With(UnpackFixed(s, p, <<4, 1>>, <<>>), LAMBDA r :
        IF r.err # ErrNil
            THEN [err |-> r.err, pos |-> r.pos, hdr |-> NoHdr]
            ELSE [err |-> ErrNil, pos |-> r.pos,
                  hdr |-> [Value |-> U32(r.vals[1]), Kind |-> U8(r.vals[2])]])

\* struc.Unpack of Name1 / Name2: NameLen uint8 (sizeof=Name), Name
parseName(s, p, variant) ==
    With(UnpackFixed(s, p, <<1>>, <<>>), LAMBDA r :
        IF r.err # ErrNil
            THEN [err |-> r.err, pos |-> r.pos, body |-> NoBody]
            ELSE With(ReadFull(s, r.pos, U8(r.vals[1])), LAMBDA n :
                    IF n.err # ErrNil
                        THEN [err |-> n.err, pos |-> n.pos, body |-> NoBody]
                        ELSE [err |-> ErrNil, pos |-> n.pos,
                              body |-> [variant |-> variant,
                                        NameLen |-> U8(r.vals[1]),
                                        Name |-> n.data]]))

\* struc.Unpack of Def: Class, Type, Size, NameLen (sizeof=Name), Name
parseDef(s, p) ==
    With(UnpackFixed(s, p, <<2, 2, 4, 1>>, <<>>), LAMBDA r :
        IF r.err # ErrNil
            THEN [err |-> r.err, pos |-> r.pos, body |-> NoBody]
            ELSE With(ReadFull(s, r.pos, U8(r.vals[4])), LAMBDA n :
                    IF n.err # ErrNil
                        THEN [err |-> n.err, pos |-> n.pos, body |-> NoBody]
                        ELSE [err |-> ErrNil, pos |-> n.pos,
                              body |-> [variant |-> "Def",
                                        Class |-> U16(r.vals[1]),
                                        Type |-> U16(r.vals[2]),
                                        Size |-> U32(r.vals[3]),
                                        NameLen |-> U8(r.vals[4]),
                                        Name |-> n.data]]))

\* struc.Unpack of Overlay: Length uint32, ID uint32
parseOverlay(s, p) ==
    With(UnpackFixed(s, p, <<4, 4>>, <<>>), LAMBDA r :
        IF r.err # ErrNil
            THEN [err |-> r.err, pos |-> r.pos, body |-> NoBody]
            ELSE [err |-> ErrNil, pos |-> r.pos,
                  body |-> [variant |-> "Overlay",
                            Length |-> U32(r.vals[1]),
                            ID |-> U32(r.vals[2])]])

(***************************************************************************)
(* Type.mods: the modifier stack of a 16-bit encoded type.  The low four   *)
(* bits select the base type; above them lie six two-bit modifier fields   *)
(* (1 pointer, 2 function, 3 array), the empty fields being left out.      *)
(***************************************************************************)
mods(t) ==
    LET fld(i) == (t \div (16 * 4 ^ (i - 1))) % 4
        all == [i \in 1..6 |-> fld(i)]
    IN SelectSeq(all, LAMBDA m : m # 0)

(***************************************************************************)
(* Dimensions.Unpack: reads uint16 values, appends each one to dims and    *)
(* stops after appending a 0.  A read error that is io.EOF is turned into  *)
(* io.ErrUnexpectedEOF.                                                    *)
(***************************************************************************)
RECURSIVE DimensionsUnpackNoTerminator(_, _, _)
DimensionsUnpackNoTerminator(s, p, dims) ==
    With(ReadFull(s, p, 2), LAMBDA r :
        IF r.err # ErrNil
            THEN [err |-> ErrUnexpectedEOF, pos |-> r.pos, dims |-> dims]
            ELSE IF U16(r.data) = 0
                     THEN [err |-> ErrNil, pos |-> r.pos, dims |-> dims]
                     ELSE DimensionsUnpackNoTerminator(s, r.pos, Append(dims, U16(r.data))))

RECURSIVE DimensionsUnpack(_, _, _)
DimensionsUnpack(s, p, dims) ==
    With(ReadFull(s, p, 2), LAMBDA r :
        IF r.err # ErrNil
            THEN [err |-> IF r.err = ErrEOF THEN ErrUnexpectedEOF ELSE r.err,
                  pos |-> r.pos, dims |-> dims]
            ELSE LET dim == U16(r.data)
                 IN IF dim = 0
                        THEN [err |-> ErrNil, pos |-> r.pos, dims |-> Append(dims, dim)]
                        ELSE DimensionsUnpack(s, r.pos, Append(dims, dim)))

(***************************************************************************)
(* parseDef2, the number of Dimensions groups to read: the number of ARY   *)
(* modifiers of the type, with 0 replaced by 1.                            *)
(***************************************************************************)
NArrayNotForced(type) == Len(SelectSeq(mods(type), LAMBDA m : m = ModARY))

NArray(type) ==
    LET narray == Len(SelectSeq(mods(type), LAMBDA m : m = ModARY))
    IN IF narray = 0 THEN 1 ELSE narray

\* parseDef2, the loop over the Dimensions groups (struc.Unpack(r, &dims))
RECURSIVE ReadDims(_, _, _, _)
ReadDims(s, p, n, groups) ==
    IF n = 0 THEN [err |-> ErrNil, pos |-> p, groups |-> groups]
    ELSE With(DimensionsUnpack(s, p, <<>>), LAMBDA d :
            IF d.err # ErrNil
                THEN [err |-> d.err, pos |-> d.pos, groups |-> groups]
                ELSE ReadDims(s, d.pos, n - 1, Append(groups, d.dims)))

\* parseDef2, a length byte (binary.Read) and, when it is positive, that
\* many bytes (io.ReadFull): the Tag and the Name
ReadLenPrefixed(s, p) ==
    With(ReadFull(s, p, 1), LAMBDA l :
        IF l.err # ErrNil
            THEN [err |-> l.err, pos |-> l.pos, len |-> 0, str |-> <<>>]
            ELSE IF U8(l.data) > 0
                     THEN With(ReadFull(s, l.pos, U8(l.data)), LAMBDA b :
                              [err |-> b.err, pos |-> b.pos, len |-> U8(l.data),
                               str |-> IF b.err = ErrNil THEN b.data ELSE <<>>])
                     ELSE [err |-> ErrNil, pos |-> l.pos, len |-> 0, str |-> <<>>])

\* parseDef2: Class, Type, Size by binary.Read, the Dims groups, Tag, Name
parseDef2(s, p) ==
    LET fail(e, q) == [err |-> e, pos |-> q, body |-> NoBody]
    IN With(ReadFull(s, p, 2), LAMBDA c :
       IF c.err # ErrNil THEN fail(c.err, c.pos) ELSE
       With(ReadFull(s, c.pos, 2), LAMBDA t :
       IF t.err # ErrNil THEN fail(t.err, t.pos) ELSE
       With(ReadFull(s, t.pos, 4), LAMBDA z :
       IF z.err # ErrNil THEN fail(z.err, z.pos) ELSE
       With(ReadDims(s, z.pos, NArray(U16(t.data)), <<>>), LAMBDA d :
       IF d.err # ErrNil THEN fail(d.err, d.pos) ELSE
       With(ReadLenPrefixed(s, d.pos), LAMBDA g :
       IF g.err # ErrNil THEN fail(g.err, g.pos) ELSE
       With(ReadLenPrefixed(s, g.pos), LAMBDA n :
       IF n.err # ErrNil THEN fail(n.err, n.pos) ELSE
          [err |-> ErrNil, pos |-> n.pos,
           body |-> [variant |-> "Def2",
                     Class |-> U16(c.data),
                     Type |-> U16(t.data),
                     Size |-> U32(z.data),
                     Dims |-> d.groups,
                     TagLen |-> g.len,
                     Tag |-> g.str,
                     NameLen |-> n.len,
                     Name |-> n.str]]))))))

(***************************************************************************)
(* parseSymbolBody: dispatch on the kind; any other kind is an error that  *)
(* names the kind, returned before the reader is touched.                  *)
(***************************************************************************)
parseSymbolBodyLenient(s, p, kind) ==
    CASE kind = KindName2 -> parseName(s, p, "Name2")
      [] kind = KindDef -> parseDef(s, p)
      [] kind = KindDef2 -> parseDef2(s, p)
      [] kind = KindOverlay -> parseOverlay(s, p)
      [] OTHER -> parseName(s, p, "Name1")

parseSymbolBody(s, p, kind) ==
    CASE kind = KindName1 -> parseName(s, p, "Name1")
      [] kind = KindName2 -> parseName(s, p, "Name2")
      [] kind = KindDef -> parseDef(s, p)
      [] kind = KindDef2 -> parseDef2(s, p)
      [] kind = KindOverlay -> parseOverlay(s, p)
      [] OTHER -> [err |-> ErrKind(kind), pos |-> p, body |-> NoBody]

(***************************************************************************)
(* parseSymbol: header, then body.  A header error returns a nil symbol;   *)
(* a body error returns the symbol with its header and a nil body.         *)
(***************************************************************************)
parseSymbol(s, p) ==
    With(parseSymbolHeader(s, p), LAMBDA h :
        IF h.err # ErrNil
            THEN [err |-> h.err, pos |-> h.pos, sym |-> NilSym]
            ELSE With(parseSymbolBody(s, h.pos, h.hdr.Kind), LAMBDA b :
                    [err |-> b.err, pos |-> b.pos,
                     sym |-> [variant |-> "Symbol", Hdr |-> h.hdr, Body |-> b.body]]))

(***************************************************************************)
(* The byte sizes the records report.                                      *)
(***************************************************************************)
RECURSIVE SumDimsLen(_)
SumDimsLen(groups) ==
    IF groups = <<>> THEN 0 ELSE 2 * Len(Head(groups)) + SumDimsLen(Tail(groups))

RECURSIVE SumDimsLenNoTerminator(_)
SumDimsLenNoTerminator(groups) ==
    IF groups = <<>> THEN 0
    ELSE 2 * (Len(Head(groups)) - 1) + SumDimsLenNoTerminator(Tail(groups))

BodySizeNoTerminator(body) ==
    CASE body.variant \in {"Name1", "Name2"} -> 1 + body.NameLen
      [] body.variant = "Def" -> 2 + 2 + 4 + 1 + body.NameLen
      [] body.variant = "Def2" ->
            2 + 2 + 4 + SumDimsLenNoTerminator(body.Dims)
              + 1 + body.TagLen + 1 + body.NameLen
      [] body.variant = "Overlay" -> 4 + 4

\* Name1.BodySize, Name2.BodySize, Def.BodySize, Def2.BodySize, Overlay.BodySize
BodySize(body) ==
    CASE body.variant \in {"Name1", "Name2"} -> 1 + body.NameLen
      [] body.variant = "Def" -> 2 + 2 + 4 + 1 + body.NameLen
      [] body.variant = "Def2" ->
            2 + 2 + 4 + SumDimsLen(body.Dims) + 1 + body.TagLen + 1 + body.NameLen
      [] body.variant = "Overlay" -> 4 + 4

\* binary.Size(SymbolHeader): Value uint32 + Kind uint8
HdrSize == 4 + 1

\* Symbol.Size
SymbolSize(sym) == HdrSize + BodySize(sym.Body)

(***************************************************************************)
(* Input streams.  A stream is a run of encoded records (MaxLeadLen bytes  *)
(* at most) followed by a prefix (possibly empty, possibly whole) of one   *)
(* more record, so that                                                    *)
(* the stream may end at every point of a record.  The encodings follow    *)
(* the layouts the decoder reads; the Dims groups of a Def2 are chosen     *)
(* independently of its Type, so that streams whose group count does not   *)
(* fit the type are decoded too.                                           *)
(***************************************************************************)
LE16(n) == <<n % 256, n \div 256>>
LE32(n) == <<n % 256, (n \div 256) % 256, (n \div 65536) % 256, n \div 16777216>>

GenNames == {<<>>, <<97, 98>>}
GenTags == {<<>>, <<116>>}
GenTypes == {4, 20, 52, 244}
GenGroups == {<<0>>, <<2, 0>>}
GenDims == {<<g>> : g \in GenGroups} \cup {<<g, h>> : g \in GenGroups, h \in GenGroups}
GenUnknownKinds == {0, 255}

RECURSIVE Flatten16(_)
Flatten16(ws) == IF ws = <<>> THEN <<>> ELSE LE16(Head(ws)) \o Flatten16(Tail(ws))

RECURSIVE FlattenGroups(_)
FlattenGroups(gs) ==
    IF gs = <<>> THEN <<>> ELSE Flatten16(Head(gs)) \o FlattenGroups(Tail(gs))

GenRecords ==
    {LE32(16) \o <<k, Len(n)>> \o n : k \in {KindName1, KindName2}, n \in GenNames}
    \cup {LE32(0) \o <<KindDef>> \o LE16(13) \o LE16(t) \o LE32(4) \o <<Len(n)>> \o n :
            t \in {4, 52}, n \in {<<>>, <<97>>}}
    \cup {LE32(0) \o <<KindDef2>> \o LE16(8) \o LE16(t) \o LE32(258)
            \o FlattenGroups(d) \o <<Len(g)>> \o g \o <<Len(n)>> \o n :
            t \in GenTypes, d \in GenDims, g \in GenTags, n \in {<<97>>}}
    \cup {LE32(65536) \o <<KindOverlay>> \o LE32(2532) \o LE32(4)}
    \cup {LE32(0) \o <<k>> : k \in GenUnknownKinds}

\* the runs of whole records of at most MaxLeadLen bytes
RECURSIVE Lead(_)
Lead(n) ==
    IF n = 0 THEN {<<>>}
    ELSE LET S == Lead(n - 1)
         IN S \cup UNION {{s \o r : r \in {x \in GenRecords :
                                                 Len(s) + Len(x) <= MaxLeadLen}} :
                             s \in S}

Streams ==
    UNION {{s \o SubSeq(r, 1, k) : k \in 0..Len(r)} :
             s \in Lead(MaxLeadLen \div 5), r \in GenRecords}

(***************************************************************************)
(* Values of the variables a specification does not use.                   *)
(***************************************************************************)
NoLast == [called |-> FALSE, start |-> 0, err |-> ErrNil, sym |-> NilSym]
NoField == [variant |-> "nil"]

DecIdle == stream = <<>> /\ pos = 0 /\ syms = <<>> /\ last = NoLast
TagIdle == tag = "" /\ tagResult = "none"
FieldIdle == field = NoField /\ text = <<>>
EnumIdle == enum = [Tag |-> "", Members |-> <<>>] /\ read = <<>> /\ outs = <<>>

(***************************************************************************)
(* Spec: the decoder.  parseSymbol is called on the reader again and again *)
(* until it returns an error.                                              *)
(***************************************************************************)
Init ==
    /\ stream \in Streams
    /\ pos = 0
    /\ syms = <<>>
    /\ last = NoLast
    /\ TagIdle /\ FieldIdle /\ EnumIdle

ParseSymbol ==
    /\ last.err = ErrNil
    /\ \E r \in {parseSymbol(stream, pos)} :
          /\ pos' = r.pos
          /\ last' = [called |-> TRUE, start |-> pos, err |-> r.err, sym |-> r.sym]
          /\ syms' = IF r.err = ErrNil THEN Append(syms, r.sym) ELSE syms
    /\ UNCHANGED <<stream, tagVars, fieldVars, enumVars>>

Next == ParseSymbol

Spec == Init /\ [][Next]_vars

(***************************************************************************)
(* Properties of the decoder.                                              *)
(***************************************************************************)
KnownKinds == {KindName1, KindName2, KindDef, KindDef2, KindOverlay}

RECURSIVE SumSizes(_)
SumSizes(ss) == IF ss = <<>> THEN 0 ELSE SymbolSize(Head(ss)) + SumSizes(Tail(ss))

Def2Bodies == {syms[i].Body : i \in {j \in 1..Len(syms) : syms[j].Body.variant = "Def2"}}

DecodedGroups == UNION {{b.Dims[i] : i \in 1..Len(b.Dims)} : b \in Def2Bodies}

\* C1: every record parseSymbol decodes without error consumed exactly
\* Symbol.Size() bytes (the 5-byte header plus Body.BodySize()), and the
\* records decoded so far tile the stream: their sizes add up to the reader
\* offset, so each record starts where the previous one ended.
C1_RoundTripSize ==
    (last.called /\ last.err = ErrNil) =>
        /\ pos - last.start = SymbolSize(last.sym)
        /\ SymbolSize(last.sym) = 5 + BodySize(last.sym.Body)
        /\ SumSizes(syms) = pos

\* a Def2 with two Dims groups decoded as the second record of the stream
C1_Witness ==
    /\ last.called /\ last.err = ErrNil
    /\ Len(syms) = 2
    /\ last.start > 0
    /\ last.sym.Body.variant = "Def2"
    /\ Len(last.sym.Body.Dims) = 2

\* C2: parseSymbol reports the clean end-of-stream signal (cause io.EOF)
\* exactly when the stream was exhausted before any byte of the header was
\* read; a stream that ends later in the record gives another error.
C2_CleanEndOnlyAtBoundary ==
    last.called =>
        /\ (last.start = Len(stream)) => (last.err = ErrEOF /\ last.sym = NilSym)
        /\ (last.err = ErrEOF) => (last.start = Len(stream))

\* C3 as stated: no element of a decoded Dimensions value is 0.
C3_NoTerminatorInDims ==
    \A g \in DecodedGroups : \A i \in 1..Len(g) : g[i] # 0

\* C3 as amended: a decoded Dimensions value stops at the first 0 and keeps
\* it: its last element is the terminator 0 and every earlier one is nonzero.
C3_TerminatorIsLast ==
    \A g \in DecodedGroups :
        /\ Len(g) >= 1
        /\ g[Len(g)] = 0
        /\ \A i \in 1..(Len(g) - 1) : g[i] # 0

\* a decoded Dimensions value holding a length and the terminator
C3_Witness == <<2, 0>> \in DecodedGroups

\* C4: a decoded Def2 holds max(1, number of array modifiers of its decoded
\* Type) Dimensions groups.
C4_DimsGroupCount ==
    \A b \in Def2Bodies :
        LET nary == Cardinality({i \in 1..Len(mods(b.Type)) : mods(b.Type)[i] = 3})
        IN Len(b.Dims) = IF nary >= 1 THEN nary ELSE 1

\* a decoded Def2 whose Type has no array modifier, with its one group
C4_Witness ==
    /\ last.called /\ last.err = ErrNil
    /\ last.sym.Body.variant = "Def2"
    /\ mods(last.sym.Body.Type) = <<>>
    /\ Len(last.sym.Body.Dims) = 1

\* C5: a header with a kind that has no body shape makes parseSymbol return
\* the error naming that kind, with the reader exactly 5 bytes past the
\* start of the record and no body returned.
C5_UnknownKind ==
    (/\ last.called
     /\ Len(stream) >= last.start + 5
     /\ stream[last.start + 5] \notin KnownKinds) =>
        /\ last.err = ErrKind(stream[last.start + 5])
        /\ pos = last.start + 5
        /\ last.sym.Hdr.Kind = stream[last.start + 5]
        /\ last.sym.Body = NoBody

\* the kind 0xFF met after a decoded record, with bytes left in the stream
C5_Witness ==
    /\ last.called
    /\ last.err = ErrKind(255)
    /\ last.start > 0

(***************************************************************************)
(* Package c: texts.                                                       *)
(***************************************************************************)
\* strings.HasPrefix, strings.HasSuffix
HasPrefix(s, prefix) == Len(s) >= Len(prefix) /\ SubSeq(s, 1, Len(prefix)) = prefix
HasSuffix(s, suffix) ==
    Len(s) >= Len(suffix) /\ SubSeq(s, Len(s) - Len(suffix) + 1, Len(s)) = suffix

Char(s, i) == SubSeq(s, i, i)
IsDigit(c) == \E i \in 1..10 : Char("0123456789", i) = c
DigitVal(c) == (CHOOSE i \in 1..10 : Char("0123456789", i) = c) - 1

RECURSIVE StripZeros(_)
StripZeros(s) ==
    IF Len(s) > 1 /\ Char(s, 1) = "0" THEN StripZeros(SubSeq(s, 2, Len(s))) ELSE s

\* a <= b for two digit strings of the same length
RECURSIVE DigitsLeq(_, _)
DigitsLeq(a, b) ==
    IF a = "" THEN TRUE
    ELSE IF DigitVal(Char(a, 1)) # DigitVal(Char(b, 1))
        THEN DigitVal(Char(a, 1)) < DigitVal(Char(b, 1))
        ELSE DigitsLeq(SubSeq(a, 2, Len(a)), SubSeq(b, 2, Len(b)))

(***************************************************************************)
(* strconv.Atoi(s), whether its error is nil: an optional sign + or -,     *)
(* then one decimal digit or more and nothing else, the value within the   *)
(* 64-bit int range.                                                       *)
(***************************************************************************)
AtoiErrIsNil(s) ==
    LET signed == Len(s) > 0 /\ Char(s, 1) \in {"+", "-"}
        neg == Len(s) > 0 /\ Char(s, 1) = "-"
        digits == IF signed THEN SubSeq(s, 2, Len(s)) ELSE s
        sig == StripZeros(digits)
    IN /\ Len(digits) >= 1
       /\ \A i \in 1..Len(digits) : IsDigit(Char(digits, i))
       /\ \/ Len(sig) < 19
          \/ /\ Len(sig) = 19
             /\ DigitsLeq(sig, IF neg THEN "9223372036854775808"
                                      ELSE "9223372036854775807")

(***************************************************************************)
(* isFakeTag: "true", "false", or "panic" were the slice expression        *)
(* tag[len("_") : len(tag)-len("fake")] out of range.                      *)
(***************************************************************************)
isFakeTag(t) ==
    IF HasPrefix(t, "_") /\ HasSuffix(t, "fake")
        THEN IF Len("_") > Len(t) - Len("fake")
                 THEN "panic"
                 ELSE IF AtoiErrIsNil(SubSeq(t, Len("_") + 1, Len(t) - Len("fake")))
                          THEN "true" ELSE "false"
        ELSE "false"

(***************************************************************************)
(* SpecTag: isFakeTag is applied to one tag.                               *)
(***************************************************************************)
MaxMidLen == 2

MidChars == {"0", "1", "2", "-", "+", "x"}

RECURSIVE Mids(_)
Mids(n) ==
    IF n = 0 THEN {""}
    ELSE LET S == Mids(n - 1) IN S \cup {m \o c : m \in S, c \in MidChars}

Tags ==
    {a \o m \o z : a \in {"", "_", "foo", "x_"}, m \in Mids(MaxMidLen),
                   z \in {"", "fake", "fak", "fakes"}}

InitTag ==
    /\ tag \in Tags
    /\ tagResult = "none"
    /\ DecIdle /\ FieldIdle /\ EnumIdle

IsFakeTag ==
    /\ tagResult = "none"
    /\ tagResult' = isFakeTag(tag)
    /\ UNCHANGED <<tag, decVars, fieldVars, enumVars>>

NextTag == IsFakeTag

SpecTag == InitTag /\ [][NextTag]_vars

\* the pattern as it is documented: `_`, then a decimal integer (digits,
\* possibly signed) whose value is not negative, then `fake`
IsFakeTagPattern(t) ==
    /\ HasPrefix(t, "_") /\ HasSuffix(t, "fake")
    /\ Len(t) > Len("_") + Len("fake")
    /\ LET mid == SubSeq(t, 2, Len(t) - 4)
           signed == Char(mid, 1) \in {"+", "-"}
           digits == IF signed THEN SubSeq(mid, 2, Len(mid)) ELSE mid
       IN /\ Len(digits) >= 1
          /\ \A i \in 1..Len(digits) : IsDigit(Char(digits, i))
          /\ Char(mid, 1) = "-" => \A i \in 1..Len(digits) : Char(digits, i) = "0"

\* C7: isFakeTag returns true exactly for the tags that begin with `_`, end
\* with `fake` and hold a valid non-negative integer between the two, and
\* it fails on no tag.
C7_FakeTagExactly ==
    tagResult # "none" =>
        /\ tagResult # "panic"
        /\ (tagResult = "true") <=> IsFakeTagPattern(tag)

\* the part of C7 the code does meet: the listed examples and no failure
C7_Examples ==
    tagResult # "none" =>
        /\ tagResult # "panic"
        /\ tag \in {"_0fake", "_12fake"} => tagResult = "true"
        /\ tag \in {"foofake", "_xfake", "_fake", ""} => tagResult = "false"

(***************************************************************************)
(* Package c: the C types.  A type is a record with a variant field:       *)
(*   BaseType(b)  PointerType(Elem)  ArrayType(Elem, Len)                  *)
(*   FuncType(RetType, Params, Variadic)  StructType(Size, Tag, Fields)    *)
(*   UnionType(Size, Tag, Fields)  EnumType(Tag, Members)                  *)
(*   Typedef(Type, Name)                                                   *)
(* and a Field is [Offset, Size, Type, Name].                              *)
(***************************************************************************)
\* fmt's %X and %04X
RECURSIVE Hex(_)
Hex(n) ==
    IF n < 16 THEN Char("0123456789ABCDEF", n + 1)
    ELSE Hex(n \div 16) \o Char("0123456789ABCDEF", (n % 16) + 1)

RECURSIVE ZeroPad(_, _)
ZeroPad(str, width) == IF Len(str) >= width THEN str ELSE ZeroPad("0" \o str, width)

Hex04(n) == ZeroPad(Hex(n), 4)

\* BaseType.String, generated from the line comments of the constants
BaseTypeString(b) ==
    CASE b = 1 -> "void"
      [] b = 2 -> "char"
      [] b = 3 -> "short"
      [] b = 4 -> "int"
      [] b = 5 -> "long"
      [] b = 6 -> "unsigned char"
      [] b = 7 -> "unsigned short"
      [] b = 8 -> "unsigned int"
      [] b = 9 -> "unsigned long"
      [] OTHER -> "BaseType(" \o ToString(b) \o ")"

TypedefString(t) == t.Name
StructTypeString(t) == "struct " \o t.Tag
UnionTypeString(t) == "union " \o t.Tag
EnumTypeString(t) == "enum " \o t.Tag

\* the String method of the types Field.String prints with %s
TypeString(t) ==
    CASE t.variant = "BaseType" -> BaseTypeString(t.b)
      [] t.variant = "Typedef" -> TypedefString(t)
      [] t.variant = "StructType" -> StructTypeString(t)
      [] t.variant = "UnionType" -> UnionTypeString(t)
      [] t.variant = "EnumType" -> EnumTypeString(t)

RECURSIVE FieldString(_)
RECURSIVE JoinParams(_, _)
RECURSIVE fakeUnionFields(_, _)

\* the parameter list of a function declarator: the parameters, ", " between
JoinParams(params, i) ==
    IF i > Len(params) THEN ""
    ELSE (IF i # 1 THEN ", " ELSE "") \o FieldString(params[i]) \o JoinParams(params, i + 1)

\* fakeUnionString, the loop over the fields
fakeUnionFields(t, i) ==
    IF i > Len(t.Fields) THEN ""
    ELSE LET fld == t.Fields[i]
             comment ==
                 IF fld.Size > 0
                     THEN "\t\t// offset: " \o Hex04(fld.Offset) \o " ("
                              \o ToString(fld.Size) \o " bytes)\n"
                 ELSE IF Len(t.Fields) > 1 /\ t.Fields[2].Offset > 0
                     THEN "\t\t// offset: " \o Hex04(fld.Offset) \o "\n"
                 ELSE ""
         IN comment \o "\t\t" \o FieldString(fld) \o ";\n" \o fakeUnionFields(t, i + 1)

\* fakeUnionString
fakeUnionString(t) ==
    (IF t.Size > 0 THEN "// size = 0x" \o Hex(t.Size) \o "\n" ELSE "")
        \o "\tunion {\n" \o fakeUnionFields(t, 1) \o "\t}"

\* Field.String with the array length put before the name
RECURSIVE FieldStringArrayFirst(_)
FieldStringArrayFirst(f) ==
    LET t == f.Type
    IN CASE t.variant = "PointerType" ->
              FieldStringArrayFirst([f EXCEPT !.Name = "*" \o f.Name, !.Type = t.Elem])
         [] t.variant = "ArrayType" ->
              FieldStringArrayFirst([f EXCEPT !.Name = "[" \o ToString(t.Len) \o "]" \o f.Name,
                                              !.Type = t.Elem])
         [] t.variant = "FuncType" ->
              FieldStringArrayFirst(
                  [f EXCEPT !.Name = "(" \o f.Name \o ")(" \o JoinParams(t.Params, 1)
                                        \o (IF t.Variadic
                                               THEN (IF Len(t.Params) > 0 THEN ", " ELSE "")
                                                        \o "..."
                                               ELSE "")
                                        \o ")",
                            !.Type = t.RetType])
         [] t.variant = "UnionType" ->
              IF isFakeTag(t.Tag) = "true"
                  THEN fakeUnionString(t) \o " " \o f.Name
                  ELSE TypeString(t) \o " " \o f.Name
         [] OTHER -> TypeString(t) \o " " \o f.Name

(***************************************************************************)
(* Field.String: a pointer, an array and a function rewrite the name and   *)
(* recurse on the element / return type; a union with a fake tag is        *)
(* inlined; everything else prints its String() and the name.              *)
(***************************************************************************)
FieldString(f) ==
    LET t == f.Type
    IN CASE t.variant = "PointerType" ->
              FieldString([f EXCEPT !.Name = "*" \o f.Name, !.Type = t.Elem])
         [] t.variant = "ArrayType" ->
              FieldString([f EXCEPT !.Name = f.Name \o "[" \o ToString(t.Len) \o "]",
                                    !.Type = t.Elem])
         [] t.variant = "FuncType" ->
              FieldString(
                  [f EXCEPT !.Name = "(" \o f.Name \o ")(" \o JoinParams(t.Params, 1)
                                        \o (IF t.Variadic
                                               THEN (IF Len(t.Params) > 0 THEN ", " ELSE "")
                                                        \o "..."
                                               ELSE "")
                                        \o ")",
                            !.Type = t.RetType])
         [] t.variant = "UnionType" ->
              IF isFakeTag(t.Tag) = "true"
                  THEN fakeUnionString(t) \o " " \o f.Name
                  ELSE TypeString(t) \o " " \o f.Name
         [] OTHER -> TypeString(t) \o " " \o f.Name

(***************************************************************************)
(* SpecField: Field.String is applied to one field.  The field types are   *)
(* the leaf types below under at most MaxDepth wrappers.                   *)
(***************************************************************************)
MaxDepth == 2

BaseType(b) == [variant |-> "BaseType", b |-> b]
PointerType(e) == [variant |-> "PointerType", Elem |-> e]
ArrayType(e, n) == [variant |-> "ArrayType", Elem |-> e, Len |-> n]
FuncType(r, ps, v) == [variant |-> "FuncType", RetType |-> r, Params |-> ps, Variadic |-> v]
StructType(z, g, fs) == [variant |-> "StructType", Size |-> z, Tag |-> g, Fields |-> fs]
UnionType(z, g, fs) == [variant |-> "UnionType", Size |-> z, Tag |-> g, Fields |-> fs]
EnumType(g, ms) == [variant |-> "EnumType", Tag |-> g, Members |-> ms]
Typedef(t, n) == [variant |-> "Typedef", Type |-> t, Name |-> n]
Field(o, z, t, n) == [Offset |-> o, Size |-> z, Type |-> t, Name |-> n]

SizedFields == <<Field(0, 4, BaseType(4), "a"), Field(0, 1, BaseType(2), "b")>>
OffsetFields == <<Field(0, 0, BaseType(4), "a"), Field(4, 0, PointerType(BaseType(2)), "s")>>

LeafTypes ==
    {BaseType(4), BaseType(3),
     Typedef(BaseType(6), "u_char"),
     EnumType("E", <<>>),
     StructType(8, "Foo", OffsetFields),
     StructType(8, "_0fake", OffsetFields),
     UnionType(4, "U", SizedFields),
     UnionType(4, "_1fake", SizedFields),
     UnionType(0, "_22fake", OffsetFields)}

ParamLists ==
    {<<>>,
     <<Field(0, 0, BaseType(4), "a")>>,
     <<Field(0, 0, BaseType(4), "a"), Field(0, 0, PointerType(BaseType(2)), "s")>>}

ArrayLens == {4, 10}

RECURSIVE Types(_)
Types(d) ==
    IF d = 0 THEN LeafTypes
    ELSE LET S == Types(d - 1)
         IN LeafTypes
            \cup {PointerType(t) : t \in S}
            \cup {ArrayType(t, n) : t \in S, n \in ArrayLens}
            \cup {FuncType(t, ps, v) : t \in S, ps \in ParamLists, v \in BOOLEAN}

FieldNames == {"p", "arr", "fn"}

InitField ==
    /\ field \in {Field(0, 0, t, n) : t \in Types(MaxDepth), n \in FieldNames}
    /\ text = <<>>
    /\ DecIdle /\ TagIdle /\ EnumIdle

String ==
    /\ text = <<>>
    /\ text' = <<FieldString(field)>>
    /\ UNCHANGED <<field, decVars, tagVars, enumVars>>

NextField == String

SpecField == InitField /\ [][NextField]_vars

(***************************************************************************)
(* Properties of Field.String.                                             *)
(***************************************************************************)
Contains(str, sub) ==
    \E i \in 1..(Len(str) - Len(sub) + 1) : SubSeq(str, i, i + Len(sub) - 1) = sub

IsWrapper(t) == t.variant \in {"PointerType", "ArrayType", "FuncType"}

\* the type at the end of the wrapper chain
RECURSIVE Leaf(_)
Leaf(t) ==
    CASE t.variant \in {"PointerType", "ArrayType"} -> Leaf(t.Elem)
      [] t.variant = "FuncType" -> Leaf(t.RetType)
      [] OTHER -> t

\* the declarator of the spiral rule: the name as the wrappers rewrite it,
\* outermost wrapper first
RECURSIVE Declarator(_, _)
Declarator(t, name) ==
    CASE t.variant = "PointerType" -> Declarator(t.Elem, "*" \o name)
      [] t.variant = "ArrayType" ->
            Declarator(t.Elem, name \o "[" \o ToString(t.Len) \o "]")
      [] t.variant = "FuncType" ->
            Declarator(t.RetType,
                "(" \o name \o ")("
                    \o (IF Len(t.Params) >= 1 THEN FieldString(t.Params[1]) ELSE "")
                    \o (IF Len(t.Params) >= 2 THEN ", " \o FieldString(t.Params[2]) ELSE "")
                    \o (IF t.Variadic /\ Len(t.Params) > 0 THEN ", ..." ELSE "")
                    \o (IF t.Variadic /\ Len(t.Params) = 0 THEN "..." ELSE "")
                    \o ")")
      [] OTHER -> name

IsFakeAggregate(t) ==
    t.variant \in {"StructType", "UnionType"} /\ isFakeTag(t.Tag) = "true"

Keyword(t) == IF t.variant = "StructType" THEN "struct" ELSE "union"

\* C6: a struct or union type with a fake tag is printed as its inlined
\* anonymous body, `struct {` / `union {` ... `}`, with the body indented
\* one level more, followed by the name, and not by its tag; with any other
\* tag it is printed as `struct <tag> <name>` / `union <tag> <name>`.
C6_FakeAggregateInlined ==
    (text # <<>> /\ field.Type.variant \in {"StructType", "UnionType"}) =>
        LET t == field.Type
        IN IF isFakeTag(t.Tag) = "true"
               THEN /\ Contains(text[1], "\t" \o Keyword(t) \o " {\n\t\t")
                    /\ HasSuffix(text[1], "\t} " \o field.Name)
                    /\ ~Contains(text[1], t.Tag)
               ELSE text[1] = Keyword(t) \o " " \o t.Tag \o " " \o field.Name

\* the part of C6 the code meets: unions, and structs with a tag that is
\* not fake
C6_UnionsAndNamedStructs ==
    (/\ text # <<>>
     /\ field.Type.variant \in {"StructType", "UnionType"}
     /\ ~(field.Type.variant = "StructType" /\ isFakeTag(field.Type.Tag) = "true")) =>
        LET t == field.Type
        IN IF isFakeTag(t.Tag) = "true"
               THEN /\ Contains(text[1], "\t" \o Keyword(t) \o " {\n\t\t")
                    /\ HasSuffix(text[1], "\t} " \o field.Name)
                    /\ ~Contains(text[1], t.Tag)
               ELSE text[1] = Keyword(t) \o " " \o t.Tag \o " " \o field.Name

\* C8: Field.String returns for every type tree; each pointer, array and
\* function wrapper rewrites the name (`*name`, `name[n]`,
\* `(name)(params)` with `...` when variadic) and the leaf is printed as
\* `<type> <accumulated name>`; so `int *p`, `short arr[4]`, `int (*fn)()`.
C8_DeclaratorSpiral ==
    text # <<>> =>
        LET t == field.Type
            leaf == Leaf(t)
        IN /\ text[1] = (IF leaf.variant = "UnionType" /\ isFakeTag(leaf.Tag) = "true"
                             THEN fakeUnionString(leaf) ELSE TypeString(leaf))
                         \o " " \o Declarator(t, field.Name)
           /\ (t = PointerType(BaseType(4)) /\ field.Name = "p") => text[1] = "int *p"
           /\ (t = ArrayType(BaseType(3), 4) /\ field.Name = "arr")
                  => text[1] = "short arr[4]"
           /\ (t = PointerType(FuncType(BaseType(4), <<>>, FALSE)) /\ field.Name = "fn")
                  => text[1] = "int (*fn)()"
           /\ (t = FuncType(BaseType(4), <<>>, TRUE) /\ field.Name = "fn")
                  => text[1] = "int (fn)(...)"
           /\ (t = FuncType(BaseType(4), <<Field(0, 0, BaseType(4), "a")>>, TRUE)
                 /\ field.Name = "fn")
                  => text[1] = "int (fn)(int a, ...)"

\* the pointer to a function returning int, named fn, has been printed
C8_Witness ==
    /\ field = Field(0, 0, PointerType(FuncType(BaseType(4), <<>>, FALSE)), "fn")
    /\ text = <<"int (*fn)()">>

\* C12: the nesting order of the wrappers shows in the text: for one name,
\* element type and length, the pointer to an array and the array of
\* pointers are printed differently, and no two different chains of
\* pointer, array and function wrappers over the same leaf and the same
\* name are printed as the same text.
C12_NestingOrderObservable ==
    (text # <<>> /\ IsWrapper(field.Type)) =>
        \A t \in Types(MaxDepth) :
            (IsWrapper(t) /\ t # field.Type /\ Leaf(t) = Leaf(field.Type))
                => FieldString(Field(0, 0, t, field.Name)) # text[1]

\* the part of C12 the code meets: the text of the pointer to a function
\* differs from the text of the function returning a pointer
C12_PointerAndFunctionDiffer ==
    (/\ text # <<>>
     /\ field.Type.variant = "PointerType"
     /\ field.Type.Elem.variant = "FuncType") =>
        LET fn == field.Type.Elem
        IN FieldString(Field(0, 0,
               FuncType(PointerType(fn.RetType), fn.Params, fn.Variadic),
               field.Name)) # text[1]


(***************************************************************************)
(* EnumType.Def.                                                           *)
(***************************************************************************)
RECURSIVE Repeat(_, _)
Repeat(c, n) == IF n <= 0 THEN "" ELSE c \o Repeat(c, n - 1)

RECURSIVE MaxNameLen(_)
MaxNameLen(ms) ==
    IF ms = <<>> THEN 0
    ELSE LET m == MaxNameLen(Tail(ms))
         IN IF Len(Head(ms).Name) > m THEN Len(Head(ms).Name) ELSE m

(***************************************************************************)
(* The tabwriter (minwidth 1, tabwidth 3, padding 1, padchar ' ',          *)
(* TabIndent) on the lines "\t<name>\t= <value>,\n": the leading empty     *)
(* cell becomes one tab; the name cell is padded with blanks to the width  *)
(* of the longest name plus one, an empty name cell with tabs.             *)
(***************************************************************************)
RECURSIVE TabwriterLines(_, _)
TabwriterLines(ms, width) ==
    IF ms = <<>> THEN ""
    ELSE LET m == Head(ms)
             cell == IF m.Name = ""
                         THEN Repeat("\t", (width + 2) \div 3)
                         ELSE m.Name \o Repeat(" ", width - Len(m.Name))
         IN "\t" \o cell \o "= " \o ToString(m.Value) \o ",\n"
                 \o TabwriterLines(Tail(ms), width)

\* EnumType.Def, the text printed for the members in the order given
DefText(tagName, ms) ==
    (IF Len(tagName) > 0 THEN "enum " \o tagName \o " {\n" ELSE "enum {\n")
        \o TabwriterLines(ms, MaxNameLen(ms) + 1)
        \o "}"

IsSortedByValue(ms) == \A i \in 1..(Len(ms) - 1) : ~(ms[i + 1].Value < ms[i].Value)

Perms(n) == {p \in [1..n -> 1..n] : \A i, j \in 1..n : p[i] = p[j] => i = j}

(***************************************************************************)
(* sort.Slice(t.Members, less) with less(i, j) = Members[i].Value <        *)
(* Members[j].Value.  sort.Slice is not a stable sort: the outcomes are    *)
(* the rearrangements of the members in which no member is followed by     *)
(* one of a smaller value, whatever the order inside a run of equal values.*)
(***************************************************************************)
SortSlice(ms) ==
    {q \in {[i \in 1..Len(ms) |-> ms[p[i]]] : p \in Perms(Len(ms))} :
        IsSortedByValue(q)}

(***************************************************************************)
(* SpecEnum: Def is called again and again on one enum.                    *)
(***************************************************************************)
MaxMembers == 3
MaxCalls == 2

MemberPool == {[Name |-> n, Value |-> v] : n \in {"A", "BB"}, v \in {0, 1}}
    \cup {[Name |-> "CCC", Value |-> 10]}

InitEnum ==
    /\ \E n \in 0..MaxMembers : \E ms \in [1..n -> MemberPool], g \in {"E", ""} :
          /\ enum = [Tag |-> g, Members |-> ms]
          /\ read = ms
    /\ outs = <<>>
    /\ DecIdle /\ TagIdle /\ FieldIdle

\* EnumType.Def: sorts t.Members in place, then prints them
Def ==
    /\ Len(outs) < MaxCalls
    /\ \E sorted \in SortSlice(enum.Members) :
          /\ enum' = [enum EXCEPT !.Members = sorted]
          /\ outs' = Append(outs, DefText(enum.Tag, sorted))
    /\ UNCHANGED <<read, decVars, tagVars, fieldVars>>

NextEnum == Def

SpecEnum == InitEnum /\ [][NextEnum]_vars

(***************************************************************************)
(* Properties of EnumType.Def.                                             *)
(***************************************************************************)
\* the stable sort of ms by Value: equal values keep their order in ms
StableSorted(ms) ==
    LET p == CHOOSE q \in Perms(Len(ms)) :
                 \A i \in 1..(Len(ms) - 1) :
                     \/ ms[q[i]].Value < ms[q[i + 1]].Value
                     \/ ms[q[i]].Value = ms[q[i + 1]].Value /\ q[i] < q[i + 1]
    IN [i \in 1..Len(ms) |-> ms[p[i]]]

\* C9: Def prints the members in ascending order of Value, members of the
\* same Value in the order they were read: the text is that of the stable
\* sort of the member list by Value.
C9_StableAscending ==
    \A i \in 1..Len(outs) : outs[i] = DefText(enum.Tag, StableSorted(read))

\* the part of C9 the code meets: what is printed is in ascending order
C9_Ascending ==
    Len(outs) >= 1 =>
        /\ IsSortedByValue(enum.Members)
        /\ outs[Len(outs)] = DefText(enum.Tag, enum.Members)

\* C10: two Def calls in a row on the same enum return the same text.
C10_DefTwiceSameText ==
    Len(outs) >= 2 => outs[1] = outs[2]

\* C11: Def does not change the enum: after any number of Def calls the
\* Members list is in the order it had before the first call.
C11_DefKeepsMembersOrder ==
    Len(outs) >= 1 => enum.Members = read

\* the part of C11 the code meets: Def only rearranges the list, every
\* member is still there, as many times as before
C11_DefRearrangesOnly ==
    \E p \in Perms(Len(read)) :
        /\ Len(enum.Members) = Len(read)
        /\ \A i \in 1..Len(read) : enum.Members[i] = read[p[i]]

====
